---- MODULE Spec2Model ----
(***************************************************************************)
(* Modal orchestration of react-native-ui-kitten: the ModalService         *)
(* singleton, the ModalPanel presenter that keeps the overlay mapping, and  *)
(* the Popover component that shows and hides its overlay through them.     *)
(*                                                                          *)
(* JavaScript strings are sequences of one-character strings, so that       *)
(* toString(36) and substring(2) are computed and not assumed.              *)
(***************************************************************************)
EXTENDS Integers, Sequences, FiniteSets, TLC

VARIABLES
  panel,           \* ModalService.panel: the bound presenter, or NoPanel (null)
  alive,           \* presenter -> componentDidMount has run, componentWillUnmount has not
  components,      \* presenter -> its state.components Map, in insertion order
  visible,         \* popover -> props.visible
  popoverModalId,  \* popover -> its private popoverModalId
  pendingMeasure,  \* popover -> measurement callbacks scheduled and not yet delivered
  nshow,           \* number of elements handed to a presenter's show so far
  lastMounted,     \* history: the presenter of the latest mount call, NoPanel after an unmount
  last,            \* history: the service call made by the step that produced this state
  unmounted,       \* popover -> its componentWillUnmount has run
  caps,            \* the bounds in force: shows made and callbacks pending per popover
  engine,          \* the placement engine's inputs and what was computed from them
  pager,           \* a ViewPager: its props, its fields and the onSelect calls it made
  toggle           \* a Toggle: its props, its fields and the onChange calls it made

vars == <<panel, alive, components, visible, popoverModalId,
          pendingMeasure, nshow, lastMounted, last, unmounted, caps, engine, pager, toggle>>

\* What the handlers of a mounted popover and of the presenters never touch.
aside == <<unmounted, caps, engine, pager, toggle>>

\* The state of the presenters, the service and the popovers.
modal == <<panel, alive, components, visible, popoverModalId, pendingMeasure,
           nshow, lastMounted, last, unmounted, caps>>

----------------------------------------------------------------------------
(* Bounds *)

MaxShows == 2
MaxPending == 1

\* The bounds of the runs with one presenter and one popover.
MaxShowsSolo == 3
MaxPendingSolo == 2

\* The onSelect calls of a run of the ViewPager.
MaxSelects == 3

\* The onChange calls of a run of the Toggle.
MaxChanges == 3

----------------------------------------------------------------------------
(* Values *)

Presenters == {"P1", "P2"}
Popovers == {"A", "B"}

NoPanel == "null"
EmptyString == << >>
Undefined == <<"undefined">>

\* Results of Math.random(), numbers in [0, 1), each written as the digits of
\* its base-36 fraction: 0, 1/36 and 1/2.
RandomValues == {<< >>, <<"1">>, <<"i">>}

toString36(r) == IF r = << >> THEN <<"0">> ELSE <<"0", ".">> \o r

substring(s, from) == IF Len(s) <= from THEN EmptyString ELSE SubSeq(s, from + 1, Len(s))

generateUniqueComponentKey(r) == substring(toString36(r), 2)

----------------------------------------------------------------------------
(* The placement engine: PopoverPlacements, Frame and Offsets of ./type.
   Lengths count half pixels, so that the centre of a span is exact. *)

Px(n) == 2 * n

Frame(x, y, width, height) ==
  [origin |-> [x |-> x, y |-> y], size |-> [width |-> width, height |-> height]]

Sides == {"top", "bottom", "left", "right"}
Alignments == {"none", "start", "end"}

Placement(rawValue, side, align) == [rawValue |-> rawValue, side |-> side, align |-> align]

\* The twelve placements, under the raw values the Popover documents.
LEFT == Placement("left", "left", "none")
LEFT_START == Placement("left start", "left", "start")
LEFT_END == Placement("left end", "left", "end")
TOP == Placement("top", "top", "none")
TOP_START == Placement("top start", "top", "start")
TOP_END == Placement("top end", "top", "end")
RIGHT == Placement("right", "right", "none")
RIGHT_START == Placement("right start", "right", "start")
RIGHT_END == Placement("right end", "right", "end")
BOTTOM == Placement("bottom", "bottom", "none")
BOTTOM_START == Placement("bottom start", "bottom", "start")
BOTTOM_END == Placement("bottom end", "bottom", "end")

PopoverPlacements ==
  {LEFT, LEFT_START, LEFT_END, TOP, TOP_START, TOP_END,
   RIGHT, RIGHT_START, RIGHT_END, BOTTOM, BOTTOM_START, BOTTOM_END}

\* PopoverPlacements.parse(value, fallback)
parse(value, fallback) ==
  IF \E pl \in PopoverPlacements : pl.rawValue = value
  THEN CHOOSE pl \in PopoverPlacements : pl.rawValue = value
  ELSE fallback

\* PopoverPlacement.reverse(), one answer per placement
reverse(pl) ==
  CASE pl = LEFT -> RIGHT
    [] pl = LEFT_START -> RIGHT_START
    [] pl = LEFT_END -> RIGHT_END
    [] pl = TOP -> BOTTOM
    [] pl = TOP_START -> BOTTOM_START
    [] pl = TOP_END -> BOTTOM_END
    [] pl = RIGHT -> LEFT
    [] pl = RIGHT_START -> LEFT_START
    [] pl = RIGHT_END -> LEFT_END
    [] pl = BOTTOM -> TOP
    [] pl = BOTTOM_START -> TOP_START
    [] pl = BOTTOM_END -> TOP_END

Edges == {"top", "bottom", "left", "right"}

\* Offsets.find(style): the offsets a style declares, none for an edge it does
\* not declare. A style is the set of its <<edge, pixels>> declarations.
OffsetsFind(style) ==
  [e \in Edges |->
     IF \E d \in style : d[1] = e
     THEN (CHOOSE d \in style : d[1] = e)[2]
     ELSE 0]

\* Where a span of length len lies along a span starting at from, of length along.
Aligned(align, from, along, len) ==
  CASE align = "none" -> from + (along - len) \div 2
    [] align = "start" -> from
    [] align = "end" -> from + along - len

\* PopoverPlacement.frame(source, other, offset): source placed beside other.
frame(pl, source, other, offset) ==
  LET x == CASE pl.side = "left" -> other.origin.x - source.size.width - offset["left"]
             [] pl.side = "right" -> other.origin.x + other.size.width + offset["right"]
             [] OTHER -> Aligned(pl.align, other.origin.x, other.size.width, source.size.width)
      y == CASE pl.side = "top" -> other.origin.y - source.size.height - offset["top"]
             [] pl.side = "bottom" -> other.origin.y + other.size.height + offset["bottom"]
             [] OTHER -> Aligned(pl.align, other.origin.y, other.size.height, source.size.height)
  IN Frame(x, y, source.size.width, source.size.height)

TAG_CHILD == 0
TAG_CONTENT == 1
PLACEMENT_DEFAULT_Top == TOP
PLACEMENT_DEFAULT == BOTTOM

\* A MeasureResult: the frame measured for each tag.
MeasureResult(childFrame, popoverFrame) ==
  [tag \in {TAG_CHILD, TAG_CONTENT} |-> IF tag = TAG_CHILD THEN childFrame ELSE popoverFrame]

getPopoverFrame_SwapsFrames(layout, rawPlacement, style) ==
  LET popoverFrame == layout[TAG_CONTENT]
      childFrame == layout[TAG_CHILD]
      offsetRect == OffsetsFind(style)
      placement == parse(rawPlacement, PLACEMENT_DEFAULT)
  IN frame(placement, childFrame, popoverFrame, offsetRect)

getPopoverFrame_IgnoresPlacement(layout, rawPlacement, style) ==
  LET popoverFrame == layout[TAG_CONTENT]
      childFrame == layout[TAG_CHILD]
      offsetRect == OffsetsFind(style)
      placement == PLACEMENT_DEFAULT
  IN frame(placement, popoverFrame, childFrame, offsetRect)

\* style is children.props.style
getPopoverFrame(layout, rawPlacement, style) ==
  LET popoverFrame == layout[TAG_CONTENT]
      childFrame == layout[TAG_CHILD]
      offsetRect == OffsetsFind(style)
      placement == parse(rawPlacement, PLACEMENT_DEFAULT)
  IN frame(placement, popoverFrame, childFrame, offsetRect)

renderPopoverElement_DropsAlignment(placement) ==
  LET popoverPlacement == parse(placement, PLACEMENT_DEFAULT)
      indicatorPlacement == reverse(parse(popoverPlacement.side, PLACEMENT_DEFAULT))
  IN indicatorPlacement.rawValue

renderPopoverElement_NoReverse(placement) ==
  LET popoverPlacement == parse(placement, PLACEMENT_DEFAULT)
      indicatorPlacement == popoverPlacement
  IN indicatorPlacement.rawValue

\* The placement prop renderPopoverElement hands to the PopoverView.
renderPopoverElement(placement) ==
  LET popoverPlacement == parse(placement, PLACEMENT_DEFAULT)
      indicatorPlacement == reverse(popoverPlacement)
  IN indicatorPlacement.rawValue

----------------------------------------------------------------------------
(* The props and the layout of the two popovers *)

DefaultOnBackdropPress == "noop"
TogglePopover == "togglePopover"
\* The props the owners give the two popovers: "A" as in the documented usage
\* (its onBackdropPress toggles its visibility) and placed above the start of
\* its child, "B" with the default props.
props ==
  [p \in Popovers |->
     [allowBackdrop |-> TRUE,
      onBackdropPress |-> IF p = "A" THEN TogglePopover ELSE DefaultOnBackdropPress,
      placement |-> IF p = "A" THEN TOP_START.rawValue ELSE PLACEMENT_DEFAULT.rawValue,
      style |-> {}]]

\* What MeasureNode measures for a popover's child and content.
Layout(p) ==
  IF p = "A"
  THEN MeasureResult(Frame(Px(10), Px(20), Px(100), Px(40)), Frame(0, 0, Px(60), Px(30)))
  ELSE MeasureResult(Frame(Px(40), Px(0), Px(30), Px(30)), Frame(0, 0, Px(80), Px(50)))

----------------------------------------------------------------------------
(* Map<string, ModalPanelChild>, kept as the sequence of its entries in
   insertion order. *)

MapHas(m, k) == \E i \in 1..Len(m) : m[i].key = k

MapDelete(m, k) == SelectSeq(m, LAMBDA e : e.key # k)

MapSet(m, k, v) ==
  IF MapHas(m, k)
  THEN [i \in 1..Len(m) |-> IF m[i].key = k THEN v ELSE m[i]]
  ELSE Append(m, v)

Entry(k, element, config) ==
  [key |-> k, element |-> element,
   allowBackdrop |-> config.allowBackdrop, onBackdropPress |-> config.onBackdropPress]

----------------------------------------------------------------------------
(* ModalPanel *)

PanelHide_Positional(m, identifier) ==
  [components |-> IF MapHas(m, identifier) THEN SubSeq(m, 1, Len(m) - 1) ELSE m,
   ret |-> EmptyString]

PanelHide(m, identifier) ==
  [components |-> MapDelete(m, identifier), ret |-> EmptyString]

PanelShow(m, element, config, r) ==
  LET key == generateUniqueComponentKey(r)
  IN [components |-> MapSet(m, key, Entry(key, element, config)), ret |-> key]

----------------------------------------------------------------------------
(* ModalServiceType *)

ServiceMount_KeepsFirst(bound, pr) == IF bound = NoPanel THEN pr ELSE bound

ServiceMount(bound, pr) == pr

ServiceUnmount(bound) == NoPanel

ServiceShow(bound, comps, element, config, r) ==
  IF bound # NoPanel
  THEN LET res == PanelShow(comps[bound], element, config, r)
       IN [components |-> [comps EXCEPT ![bound] = res.components], ret |-> res.ret]
  ELSE [components |-> comps, ret |-> Undefined]

ServiceHide_ReturnsEmpty(bound, comps, identifier) ==
  IF bound # NoPanel
  THEN LET res == PanelHide(comps[bound], identifier)
       IN [components |-> [comps EXCEPT ![bound] = res.components], ret |-> res.ret]
  ELSE [components |-> comps, ret |-> EmptyString]

ServiceHide(bound, comps, identifier) ==
  IF bound # NoPanel
  THEN LET res == PanelHide(comps[bound], identifier)
       IN [components |-> [comps EXCEPT ![bound] = res.components], ret |-> res.ret]
  ELSE [components |-> comps, ret |-> Undefined]

----------------------------------------------------------------------------
(* ViewPager. Lengths are whole units; a velocity counts tenths of a unit per
   millisecond, so that 0.5 is 5. *)

\* The pages of the documented usage.
ChildCount == 3
\* The width onLayout reports for the container of all the pages.
LayoutWidth == 12

\* What a PanResponderGestureState carries in dx, dy and vx.
Deltas == {-4, -2, -1, 0, 1, 2, 4}
DeltasY == {0, 3}
Velocities == {-5, 0, 5}

Abs(n) == IF n < 0 THEN -n ELSE n

\* Math.sign
Sign(n) == IF n > 0 THEN 1 ELSE IF n < 0 THEN -1 ELSE 0

\* Math.round(num / den) for den > 0: the nearest integer, a half going up.
Round(num, den) == (2 * num + den) \div (2 * den)

\* The values an Animated.Value takes on the way from one value to another.
Frames(from, to) == IF from <= to THEN from..to ELSE to..from

\* The ViewPager once constructed with the given selectedIndex prop: granted
\* tells whether it is the responder of a gesture, animation holds the toValue
\* of the running animation of contentOffset, selected the arguments of the
\* onSelect calls so far.
NewPager(selectedIndex) ==
  [selectedIndex |-> selectedIndex, contentWidth |-> 0, contentOffsetValue |-> 0,
   granted |-> FALSE, animation |-> << >>, selected |-> << >>]

\* props.onSelect as in the documented usage: the owner's onIndexChange makes
\* the index the selectedIndex prop.
onSelect(pg, index) ==
  [pg EXCEPT !.selected = Append(@, index), !.selectedIndex = index]

onContentOffsetAnimationStateEnd(pg) ==
  IF pg.contentOffsetValue # pg.selectedIndex * pg.contentWidth
  THEN onSelect(pg, Round(pg.contentOffsetValue, pg.contentWidth))
  ELSE pg

\* onContentOffsetAnimationStateChanged, the listener of contentOffset.
onContentOffsetAnimationStateChanged(pg, value) ==
  [pg EXCEPT !.contentOffsetValue = -value]

\* The values at which a running animation of contentOffset may be stopped.
StopValues(pg) ==
  IF pg.animation = << >>
  THEN {-pg.contentOffsetValue}
  ELSE Frames(-pg.contentOffsetValue, pg.animation[1])

\* Animated stops the running animation of a value that is set or animated
\* anew: its listener has seen the value v last, and its end callback runs.
Stopped(pg, v) ==
  IF pg.animation = << >>
  THEN pg
  ELSE onContentOffsetAnimationStateEnd(
         [onContentOffsetAnimationStateChanged(pg, v) EXCEPT !.animation = << >>])

\* createOffsetAnimation: the toValue of the animation to an offset.
createOffsetAnimation(offset) == -offset

\* scrollToIndex, scrollToOffset: the animation started towards a page.
scrollToIndex(pg, index) ==
  [pg EXCEPT !.animation = <<createOffsetAnimation(pg.contentWidth * index)>>]

----------------------------------------------------------------------------
(* Toggle *)

\* What a PanResponderGestureState carries in dx at the release.
ToggleDeltas == {-6, -5, -4, 0, 4, 5, 6}

\* The Toggle once constructed with the given props: granted tells whether it
\* is the responder of a gesture, thumbTranslateAnimation holds the callback of
\* the running animation of the thumb (the nextValue toggle() gave it), changes
\* the arguments of the onChange calls so far, starts the number of thumb
\* animations toggle() has started, dx the dx of the latest release.
NewToggle(checked, disabled) ==
  [checked |-> checked, disabled |-> disabled, granted |-> FALSE,
   thumbTranslateAnimationActive |-> FALSE, thumbTranslateAnimation |-> << >>,
   changes |-> << >>, starts |-> 0, dx |-> 0]

\* props.onChange as in the documented usage: the owner makes the value the
\* checked prop.
onChange(tg, checked) ==
  [tg EXCEPT !.changes = Append(@, checked), !.checked = checked]

\* onPress, which toggle() hands over as the callback of nextValue.
onPress(tg, nextValue) == onChange(tg, ~tg.checked)

\* The callback animateThumbTranslate gives to start, around the one of
\* toggle(): Animated calls it when the animation ends or is stopped.
ThumbTranslateEnded(tg) ==
  IF tg.thumbTranslateAnimation = << >>
  THEN tg
  ELSE onPress([tg EXCEPT !.thumbTranslateAnimationActive = FALSE,
                          !.thumbTranslateAnimation = << >>],
               tg.thumbTranslateAnimation[1].nextValue)

\* toggle(callback) with callback = onPress: animateThumbTranslate marks the
\* animation active, then starts it, which stops the one still running.
Toggled(tg) ==
  LET checked == tg.checked
      marked == [tg EXCEPT !.thumbTranslateAnimationActive = TRUE]
  IN [ThumbTranslateEnded(marked) EXCEPT
        !.thumbTranslateAnimation = <<[nextValue |-> ~checked]>>,
        !.starts = @ + 1]

----------------------------------------------------------------------------
(* State *)

NoEntry == [pr |-> NoPanel, key |-> EmptyString]

\* The record kept in `last`: call, the ModalService method the step invoked
\* ("none" when it invoked none, "noshow" when onMeasure declined to show);
\* removed, how many entries the call took out of the bound presenter; pressed,
\* the entry whose backdrop was pressed in the step.
Op(call, removed, pressed) == [call |-> call, removed |-> removed, pressed |-> pressed]

Removed(bound, before, after) ==
  IF bound = NoPanel THEN 0 ELSE Len(before[bound]) - Len(after[bound])

\* The engine of a popover with the given placement prop, child style and
\* layout to come, before render and onMeasure have run: stage tells which of
\* indicator and frame have been computed.
NoIndicator == "none"
NoFrame == Frame(0, 0, 0, 0)
Idle(placement, style, layout) ==
  [placement |-> placement, style |-> style, layout |-> layout, stage |-> "idle",
   indicator |-> NoIndicator, frame |-> NoFrame]

\* The modal layer once the modules are loaded: no presenter mounted, every
\* popover hidden.
InitModal ==
  /\ panel = NoPanel
  /\ alive = [pr \in Presenters |-> FALSE]
  /\ components = [pr \in Presenters |-> << >>]
  /\ visible = [p \in Popovers |-> FALSE]
  /\ popoverModalId = [p \in Popovers |-> EmptyString]
  /\ pendingMeasure = [p \in Popovers |-> 0]
  /\ nshow = 0
  /\ lastMounted = NoPanel
  /\ last = Op("none", 0, NoEntry)
  /\ unmounted = [p \in Popovers |-> FALSE]

Init ==
  /\ InitModal
  /\ caps = [shows |-> MaxShows, pending |-> MaxPending]
  /\ engine = Idle(props["B"].placement, props["B"].style, Layout("B"))
  /\ pager = NewPager(0)
  /\ toggle = NewToggle(FALSE, FALSE)

\* ModalPanel.componentDidMount of a new presenter instance, whose state is a
\* new empty Map.
PanelDidMount(pr) ==
  /\ ~alive[pr]
  /\ alive' = [alive EXCEPT ![pr] = TRUE]
  /\ components' = [components EXCEPT ![pr] = << >>]
  /\ panel' = ServiceMount(panel, pr)
  /\ lastMounted' = pr
  /\ last' = Op("none", 0, NoEntry)
  /\ UNCHANGED <<visible, popoverModalId, pendingMeasure, nshow, aside>>

\* ModalPanel.componentWillUnmount; the instance is discarded with its state.
PanelWillUnmount(pr) ==
  /\ alive[pr]
  /\ alive' = [alive EXCEPT ![pr] = FALSE]
  /\ components' = [components EXCEPT ![pr] = << >>]
  /\ panel' = ServiceUnmount(panel)
  /\ lastMounted' = NoPanel
  /\ last' = Op("none", 0, NoEntry)
  /\ UNCHANGED <<visible, popoverModalId, pendingMeasure, nshow, aside>>

----------------------------------------------------------------------------
(* MeasureNode: one callback per layout pass of the measured children,
   delivered asynchronously. *)

ScheduleMeasure(pm, p) == [pm EXCEPT ![p] = @ + 1]

DeliverMeasure(pm, p) == [pm EXCEPT ![p] = @ - 1]

----------------------------------------------------------------------------
(* PopoverComponent *)

\* The content and the config that showPopoverModal hands to ModalService.show.
PopoverElement(p, n, additionalStyle) == [owner |-> p, seq |-> n, style |-> additionalStyle]

PopoverConfig(p) ==
  [allowBackdrop |-> props[p].allowBackdrop,
   onBackdropPress |-> [kind |-> props[p].onBackdropPress, owner |-> p]]

showPopoverModal_DropsId(p, layout, r) ==
  LET popoverFrame == getPopoverFrame(layout, props[p].placement, props[p].style)
      popoverPosition == popoverFrame.origin
      additionalStyle == [left |-> popoverPosition.x, top |-> popoverPosition.y]
      popover == PopoverElement(p, nshow + 1, additionalStyle)
      res == ServiceShow(panel, components, popover, PopoverConfig(p), r)
  IN [components |-> res.components, ret |-> EmptyString]

showPopoverModal(p, layout, r) ==
  LET popoverFrame == getPopoverFrame(layout, props[p].placement, props[p].style)
      popoverPosition == popoverFrame.origin
      additionalStyle == [left |-> popoverPosition.x, top |-> popoverPosition.y]
      popover == PopoverElement(p, nshow + 1, additionalStyle)
  IN ServiceShow(panel, components, popover, PopoverConfig(p), r)

\* The test of onMeasure: the show is made only while the popover is visible.
OnMeasureShows_Always(p) == TRUE

OnMeasureShows(p) == visible[p]

VisibleChanged_ShowsAtOnce(p, v, pressed) ==
  /\ visible' = [visible EXCEPT ![p] = v]
  /\ IF v
     THEN /\ nshow < caps.shows
          /\ nshow' = nshow + 1
          /\ \E r \in RandomValues :
               LET res == showPopoverModal(p, Layout(p), r)
               IN /\ components' = res.components
                  /\ popoverModalId' = [popoverModalId EXCEPT ![p] = res.ret]
                  /\ last' = Op("show", 0, pressed)
     ELSE LET res == ServiceHide(panel, components, popoverModalId[p])
          IN /\ components' = res.components
             /\ popoverModalId' = [popoverModalId EXCEPT ![p] = res.ret]
             /\ last' = Op("hide", Removed(panel, components, res.components), pressed)
             /\ UNCHANGED nshow
  /\ UNCHANGED <<panel, alive, pendingMeasure, lastMounted, aside>>

\* render and componentDidUpdate once the owner changed props.visible to v.
VisibleChanged(p, v, pressed) ==
  /\ visible' = [visible EXCEPT ![p] = v]
  /\ IF v
     THEN /\ pendingMeasure[p] < caps.pending
          /\ pendingMeasure' = ScheduleMeasure(pendingMeasure, p)
          /\ last' = Op("none", 0, pressed)
          /\ UNCHANGED <<components, popoverModalId>>
     ELSE LET res == ServiceHide(panel, components, popoverModalId[p])
          IN /\ components' = res.components
             /\ popoverModalId' = [popoverModalId EXCEPT ![p] = res.ret]
             /\ last' = Op("hide", Removed(panel, components, res.components), pressed)
             /\ UNCHANGED pendingMeasure
  /\ UNCHANGED <<panel, alive, nshow, lastMounted, aside>>

\* The owner of the popover sets props.visible.
SetVisible(p, v) ==
  /\ ~unmounted[p]
  /\ v # visible[p]
  /\ VisibleChanged(p, v, NoEntry)

\* Another layout pass of the measured children while the popover is visible.
Relayout(p) ==
  /\ ~unmounted[p]
  /\ visible[p]
  /\ pendingMeasure[p] < caps.pending
  /\ pendingMeasure' = ScheduleMeasure(pendingMeasure, p)
  /\ last' = Op("none", 0, NoEntry)
  /\ UNCHANGED <<panel, alive, components, visible, popoverModalId, nshow,
                 lastMounted, aside>>

\* PopoverComponent.onMeasure, called back by the MeasureNode.
OnMeasure(p) ==
  /\ pendingMeasure[p] > 0
  /\ pendingMeasure' = DeliverMeasure(pendingMeasure, p)
  /\ IF OnMeasureShows(p)
     THEN /\ nshow < caps.shows
          /\ nshow' = nshow + 1
          /\ \E r \in RandomValues :
               LET res == showPopoverModal(p, Layout(p), r)
               IN /\ components' = res.components
                  /\ popoverModalId' = [popoverModalId EXCEPT ![p] = res.ret]
                  /\ last' = Op("show", 0, NoEntry)
     ELSE /\ last' = Op("noshow", 0, NoEntry)
          /\ UNCHANGED <<components, popoverModalId, nshow>>
  /\ UNCHANGED <<panel, alive, visible, lastMounted, aside>>

\* PopoverComponent.componentWillUnmount: the instance is gone for good, with
\* the props it had last.
PopoverWillUnmount(p) ==
  /\ ~unmounted[p]
  /\ unmounted' = [unmounted EXCEPT ![p] = TRUE]
  /\ popoverModalId' = [popoverModalId EXCEPT ![p] = EmptyString]
  /\ last' = Op("none", 0, NoEntry)
  /\ UNCHANGED <<panel, alive, components, visible, pendingMeasure, nshow, lastMounted,
                 caps, engine, pager, toggle>>

\* What renderModal hands to the ModalResolver of an entry.
renderModal_DropsHandler(e) ==
  [allowBackdrop |-> e.allowBackdrop,
   onBackdropPress |-> [kind |-> DefaultOnBackdropPress, owner |-> e.onBackdropPress.owner]]

renderModal(e) == [allowBackdrop |-> e.allowBackdrop, onBackdropPress |-> e.onBackdropPress]

\* The elements renderModals lays out, first to last: the values of the Map in
\* its iteration order, each under its index as the React key.
renderModals(m) ==
  [index \in 1..Len(m) |->
     [key |-> index - 1, element |-> m[index].element, resolver |-> renderModal(m[index])]]

\* A press on the backdrop of the i-th overlay a live presenter renders: the
\* ModalResolver calls the onBackdropPress it was given, when it allows one.
BackdropPress(pr, i) ==
  /\ alive[pr]
  /\ i \in 1..Len(components[pr])
  /\ LET e == components[pr][i]
         resolver == renderModal(e)
         owner == resolver.onBackdropPress.owner
         pressed == [pr |-> pr, key |-> e.key]
     IN /\ resolver.allowBackdrop
        /\ IF resolver.onBackdropPress.kind = TogglePopover /\ ~unmounted[owner]
           THEN VisibleChanged(owner, ~visible[owner], pressed)
           ELSE /\ last' = Op("none", 0, pressed)
                /\ UNCHANGED <<panel, alive, components, visible, popoverModalId,
                               pendingMeasure, nshow, lastMounted, aside>>

Next ==
  \/ \E pr \in Presenters : PanelDidMount(pr)
  \/ \E pr \in Presenters : PanelWillUnmount(pr)
  \/ \E p \in Popovers, v \in BOOLEAN : SetVisible(p, v)
  \/ \E p \in Popovers : Relayout(p)
  \/ \E p \in Popovers : OnMeasure(p)
  \/ \E pr \in Presenters, i \in 1..caps.shows : BackdropPress(pr, i)

Spec == Init /\ [][Next]_vars

----------------------------------------------------------------------------
(* One presenter and one popover, over longer runs in which the popover may
   also be unmounted. *)

InitSolo ==
  /\ InitModal
  /\ caps = [shows |-> MaxShowsSolo, pending |-> MaxPendingSolo]
  /\ engine = Idle(props["A"].placement, props["A"].style, Layout("A"))
  /\ pager = NewPager(0)
  /\ toggle = NewToggle(FALSE, FALSE)

NextSolo ==
  \/ PanelDidMount("P1")
  \/ PanelWillUnmount("P1")
  \/ \E v \in BOOLEAN : SetVisible("A", v)
  \/ Relayout("A")
  \/ OnMeasure("A")
  \/ PopoverWillUnmount("A")
  \/ \E i \in 1..caps.shows : BackdropPress("P1", i)

SpecSolo == InitSolo /\ [][NextSolo]_vars

----------------------------------------------------------------------------
(* The placement engine on its own: a visible popover is rendered, then
   measured, with any placement prop, child style and layout. *)

RawPlacements ==
  {pl.rawValue : pl \in PopoverPlacements} \cup {"diagonal", "top-start", ""}

ChildFrames == {Frame(Px(10), Px(20), Px(100), Px(40)), Frame(0, 0, Px(30), Px(30))}
ContentFrames == {Frame(0, 0, Px(60), Px(30)), Frame(Px(5), Px(5), Px(80), Px(50))}
Styles == {{}, {<<"bottom", Px(4)>>}, {<<"top", Px(2)>>, <<"left", Px(6)>>}}

InitPlacement ==
  /\ InitModal
  /\ caps = [shows |-> 0, pending |-> 0]
  /\ \E raw \in RawPlacements, style \in Styles,
        childFrame \in ChildFrames, popoverFrame \in ContentFrames :
       engine = Idle(raw, style, MeasureResult(childFrame, popoverFrame))
  /\ pager = NewPager(0)
  /\ toggle = NewToggle(FALSE, FALSE)

\* render of the visible popover: renderPopoverElement makes the content element.
Render ==
  /\ engine.stage = "idle"
  /\ engine' = [engine EXCEPT !.stage = "rendered",
                              !.indicator = renderPopoverElement(engine.placement)]
  /\ UNCHANGED <<modal, pager, toggle>>

\* The frame showPopoverModal asks of getPopoverFrame once the layout is measured.
Place ==
  /\ engine.stage = "rendered"
  /\ engine' = [engine EXCEPT !.stage = "placed",
                              !.frame = getPopoverFrame(engine.layout, engine.placement,
                                                         engine.style)]
  /\ UNCHANGED <<modal, pager, toggle>>

NextPlacement == Render \/ Place

SpecPlacement == InitPlacement /\ [][NextPlacement]_vars

----------------------------------------------------------------------------
(* The ViewPager on its own, under the gestures and layouts of its view. *)

InitViewPager ==
  /\ InitModal
  /\ caps = [shows |-> 0, pending |-> 0]
  /\ engine = Idle(props["B"].placement, props["B"].style, Layout("B"))
  /\ \E selectedIndex \in 0..(ChildCount - 1) : pager = NewPager(selectedIndex)
  /\ toggle = NewToggle(FALSE, FALSE)

\* The pager after a handler, within the bound on the onSelect calls.
PagerBecomes(pg) ==
  /\ Len(pg.selected) <= MaxSelects
  /\ pager' = pg
  /\ UNCHANGED <<modal, engine, toggle>>

\* onLayout, at the first layout of the view.
OnLayout ==
  /\ pager.contentWidth = 0
  /\ LET index == pager.selectedIndex
         laidOut == [pager EXCEPT !.contentWidth = LayoutWidth \div ChildCount]
     IN \E v \in StopValues(pager) : PagerBecomes(scrollToIndex(Stopped(laidOut, v), index))

\* onMoveShouldSetPanResponder, asked of a view that is laid out and is not
\* the responder; its answer makes the view the responder or not.
OnMoveShouldSetPanResponder(dx, dy) ==
  /\ pager.contentWidth > 0
  /\ ~pager.granted
  /\ LET isHorizontalMove == Abs(dx) > 0 /\ Abs(dx) > Abs(dy)
         nextSelectedIndex == pager.selectedIndex - Sign(dx)
         answer == IF isHorizontalMove
                   THEN nextSelectedIndex >= 0 /\ nextSelectedIndex < ChildCount
                   ELSE FALSE
     IN PagerBecomes([pager EXCEPT !.granted = answer])

\* onPanResponderMove: contentOffset.setValue, heard by the listener.
OnPanResponderMove(dx) ==
  /\ pager.granted
  /\ LET selectedPageOffset == pager.selectedIndex * pager.contentWidth
     IN \E v \in StopValues(pager) :
          PagerBecomes(onContentOffsetAnimationStateChanged(Stopped(pager, v),
                                                            dx - selectedPageOffset))

\* onPanResponderRelease; vx in tenths.
OnPanResponderRelease(dx, vx) ==
  /\ pager.granted
  /\ LET index == IF Abs(vx) >= 5 \/ 2 * Abs(dx) >= pager.contentWidth
                  THEN IF dx > 0 THEN pager.selectedIndex - 1 ELSE pager.selectedIndex + 1
                  ELSE pager.selectedIndex
     IN \E v \in StopValues(pager) :
          PagerBecomes(scrollToIndex([Stopped(pager, v) EXCEPT !.granted = FALSE], index))

\* The animation of contentOffset reaches its toValue: the listener hears it,
\* then onContentOffsetAnimationStateEnd runs.
AnimationEnd ==
  /\ pager.animation # << >>
  /\ PagerBecomes(Stopped(pager, pager.animation[1]))

NextViewPager ==
  \/ OnLayout
  \/ \E dx \in Deltas, dy \in DeltasY : OnMoveShouldSetPanResponder(dx, dy)
  \/ \E dx \in Deltas : OnPanResponderMove(dx)
  \/ \E dx \in Deltas, vx \in Velocities : OnPanResponderRelease(dx, vx)
  \/ AnimationEnd

SpecViewPager == InitViewPager /\ [][NextViewPager]_vars

----------------------------------------------------------------------------
(* The Toggle on its own, under gestures and the props its owner gives it. *)

InitToggle ==
  /\ InitModal
  /\ caps = [shows |-> 0, pending |-> 0]
  /\ engine = Idle(props["B"].placement, props["B"].style, Layout("B"))
  /\ pager = NewPager(0)
  /\ \E checked \in BOOLEAN, disabled \in BOOLEAN : toggle = NewToggle(checked, disabled)

\* The toggle after a handler, within the bound on the onChange calls.
ToggleBecomes(tg) ==
  /\ Len(tg.changes) <= MaxChanges
  /\ toggle' = tg
  /\ UNCHANGED <<modal, engine, pager>>

\* The owner renders the toggle with other props.
SetToggleProps(checked, disabled) ==
  /\ <<checked, disabled>> # <<toggle.checked, toggle.disabled>>
  /\ ToggleBecomes([toggle EXCEPT !.checked = checked, !.disabled = disabled])

\* onPanResponderGrant: a gesture starts on the toggle.
OnPanResponderGrant ==
  /\ ~toggle.granted
  /\ LET granted == [toggle EXCEPT !.granted = TRUE]
     IN IF toggle.disabled
        THEN ToggleBecomes(granted)
        ELSE IF toggle.thumbTranslateAnimationActive
             THEN ToggleBecomes(ThumbTranslateEnded(
                    [granted EXCEPT !.thumbTranslateAnimationActive = FALSE]))
             ELSE ToggleBecomes(granted)

\* onPanResponderRelease of the gesture, with the dx of its gesture state.
OnToggleRelease(dx) ==
  /\ toggle.granted
  /\ LET checked == toggle.checked
         disabled == toggle.disabled
         released == [toggle EXCEPT !.granted = FALSE, !.dx = dx]
     IN IF ~disabled /\ ((~checked /\ dx > -5) \/ (checked /\ dx < 5))
        THEN ToggleBecomes(Toggled(released))
        ELSE ToggleBecomes(released)

\* The animation of the thumb that toggle() started reaches its end.
ThumbAnimationEnd ==
  /\ toggle.thumbTranslateAnimation # << >>
  /\ ToggleBecomes(ThumbTranslateEnded(toggle))

NextToggle ==
  \/ \E checked \in BOOLEAN, disabled \in BOOLEAN : SetToggleProps(checked, disabled)
  \/ OnPanResponderGrant
  \/ \E dx \in ToggleDeltas : OnToggleRelease(dx)
  \/ ThumbAnimationEnd

SpecToggle == InitToggle /\ [][NextToggle]_vars

----------------------------------------------------------------------------
(* Properties *)

Entries(m) == {m[i] : i \in 1..Len(m)}

OwnedBy(m, p) == {e \in Entries(m) : e.element.owner = p}

\* The step is popover p's onMeasure calling ModalService.show.
ShowCall(p) == pendingMeasure'[p] < pendingMeasure[p] /\ nshow' > nshow

\* The step is popover p's onMeasure returning without a show.
NoShowCall(p) == pendingMeasure'[p] < pendingMeasure[p] /\ nshow' = nshow

\* The step is popover p's componentDidUpdate calling ModalService.hide, with
\* the identifier popoverModalId[p].
HideCall(p) == visible[p] /\ ~visible'[p]

\* The step ends the life of the instance of presenter pr.
Discards(pr) == alive[pr] /\ ~alive'[pr]

\* C1: every show on a mounted presenter returns an identifier that is not in
\* use in that presenter's mapping when the show is made, so the identifiers
\* of shows with no hide between them are pairwise distinct.
C1_ShowIdentifiersFresh ==
  [][\A p \in Popovers : (ShowCall(p) /\ panel # NoPanel)
       => ~MapHas(components[panel], popoverModalId'[p])]_vars

\* C2: while no presenter is bound (initially or after unmount) a show or a
\* hide made through the service returns undefined and changes no presenter's
\* mapping; the caller goes on and stores the undefined result.
C2_UnmountedServiceIsNoOp ==
  [][\A p \in Popovers : ((ShowCall(p) \/ HideCall(p)) /\ panel = NoPanel)
       => /\ components' = components
          /\ popoverModalId'[p] = Undefined]_vars

C2_Witness ==
  /\ last.call = "hide"
  /\ panel = NoPanel
  /\ \E p \in Popovers : popoverModalId[p] = Undefined
  /\ \E pr \in Presenters : components[pr] # << >>

\* C3: after mount(P1) then mount(P2), with both presenters alive, a show made
\* through the service puts its overlay in the mapping of P2, the presenter
\* mounted last, and touches no other presenter.
C3_ShowRoutesToLastMounted ==
  [][\A p \in Popovers :
       (ShowCall(p) /\ lastMounted # NoPanel /\ \A pr \in Presenters : alive[pr])
         => /\ popoverModalId'[p] # Undefined
            /\ \A pr \in Presenters \ {lastMounted} : components'[pr] = components[pr]
            /\ \E e \in Entries(components'[lastMounted]) :
                 e.element.seq = nshow' /\ e.key = popoverModalId'[p]]_vars

C3_Witness ==
  /\ last.call = "show"
  /\ lastMounted = "P2"
  /\ alive["P1"]
  /\ components["P1"] # << >>
  /\ \E e \in Entries(components["P2"]) : e.element.seq = nshow

\* C4: with a presenter mounted, hide returns the empty string, hiding the
\* value a hide returned changes nothing more (hide(hide(X)) is hide(X)), and
\* hiding an identifier that is absent, the empty string included, is a no-op.
C4_HideIdempotent ==
  [][\A p \in Popovers : (HideCall(p) /\ panel # NoPanel)
       => /\ popoverModalId'[p] = EmptyString
          /\ PanelHide(components'[panel], popoverModalId'[p]).components
               = components'[panel]
          /\ (popoverModalId[p] = EmptyString \/ ~MapHas(components[panel], popoverModalId[p]))
               => components' = components]_vars

\* C5: a hide on the mounted presenter removes exactly the entry stored under
\* the identifier, leaves every other entry of every presenter as it was, and
\* returns the empty string.
C5_HideRemovesExactlyThatRecord ==
  [][\A p \in Popovers : (HideCall(p) /\ panel # NoPanel)
       => LET before == components[panel]
              after == components'[panel]
              id == popoverModalId[p]
          IN /\ popoverModalId'[p] = EmptyString
             /\ \A pr \in Presenters \ {panel} : components'[pr] = components[pr]
             /\ \A e \in Entries(before) : e.key # id => e \in Entries(after)
             /\ \A e \in Entries(after) : e.key # id /\ e \in Entries(before)
             /\ Len(after) = Len(before) - (IF MapHas(before, id) THEN 1 ELSE 0)]_vars

C5_Witness ==
  /\ last.call = "hide"
  /\ last.removed = 1
  /\ panel # NoPanel
  /\ components[panel] # << >>

\* C6: an entry stays in its presenter's mapping, with the content and the
\* dismiss configuration it was created with, until hide is called with its
\* identifier; no other operation on that presenter removes or replaces it.
C6_RecordStaysUntilHidden ==
  [][\A pr \in Presenters : \A e \in Entries(components[pr]) :
       (/\ ~(\E p \in Popovers : HideCall(p) /\ panel = pr /\ popoverModalId[p] = e.key)
        /\ ~Discards(pr))
         => e \in Entries(components'[pr])]_vars

\* C7: with two callers interleaving shows and hides on one presenter, the
\* overlay of a caller leaves the mapping only by a hide of that same caller.
C7_CallersDoNotDisturbEachOther ==
  [][\A pr \in Presenters : \A e \in Entries(components[pr]) :
       (~HideCall(e.element.owner) /\ ~Discards(pr))
         => e \in Entries(components'[pr])]_vars

C9_BackdropRemovesRecord ==
  last.pressed # NoEntry => ~MapHas(components[last.pressed.pr], last.pressed.key)

\* C9 as amended: the backdrop callback is the onBackdropPress of the
\* popover's owner. When it turns a visible popover's visible prop off, hide
\* is called with the popover's stored identifier, and with a presenter bound
\* no entry is left under that identifier and the stored identifier is the
\* empty string; otherwise (the default handler included) no entry is removed.
C9_BackdropRunsOwnersHandler ==
  [][last'.pressed # NoEntry
       => LET pr == last'.pressed.pr
              e == CHOOSE x \in Entries(components[pr]) : x.key = last'.pressed.key
              p == e.element.owner
          IN /\ alive[pr]
             /\ e.allowBackdrop
             /\ IF e.onBackdropPress.kind = TogglePopover /\ visible[p] /\ ~unmounted[p]
                THEN /\ HideCall(p)
                     /\ last'.call = "hide"
                     /\ IF panel # NoPanel
                        THEN /\ ~MapHas(components'[panel], popoverModalId[p])
                             /\ popoverModalId'[p] = EmptyString
                        ELSE /\ components' = components
                             /\ popoverModalId'[p] = Undefined
                ELSE /\ components' = components
                     /\ popoverModalId' = popoverModalId]_vars

C9_Witness ==
  /\ last.pressed # NoEntry
  /\ last.call = "hide"
  /\ last.removed = 1
  /\ ~MapHas(components[last.pressed.pr], last.pressed.key)

\* C10: when a popover's visible prop goes from true to false with a presenter
\* bound, hide is called with the stored identifier, no live presenter holds an
\* entry of that popover any more, and the stored identifier is the empty string.
C10_HideRequestRemovesPopover ==
  [][\A p \in Popovers : (HideCall(p) /\ panel # NoPanel)
       => /\ last'.call = "hide"
          /\ ~MapHas(components'[panel], popoverModalId[p])
          /\ popoverModalId'[p] = EmptyString
          /\ \A pr \in Presenters : alive[pr] => OwnedBy(components'[pr], p) = {}]_vars

\* The step delivers a measurement result to popover p's onMeasure.
Measured(p) == pendingMeasure'[p] = pendingMeasure[p] - 1

\* The entries a step adds to the mapping of presenter pr.
Added(pr) == Entries(components'[pr]) \ Entries(components[pr])

\* C11: a popover leaves measuring for shown only through the measurement
\* callback: when the callback fires while the popover is visible and a
\* presenter is bound, the frame of its placement is computed from the measured
\* layout, show is called once with the content positioned at that frame's
\* origin, and the identifier show returns is stored as popoverModalId; no
\* step that delivers no measurement makes a show.
C11_ShownThroughMeasurementCallback ==
  [][/\ \A p \in Popovers : (Measured(p) /\ visible[p] /\ panel # NoPanel)
          => LET origin == frame(parse(props[p].placement, BOTTOM), Layout(p)[TAG_CONTENT],
                                 Layout(p)[TAG_CHILD], [e \in Edges |-> 0]).origin
                 shown == {e \in Entries(components'[panel]) : e.element.seq = nshow'}
             IN /\ nshow' = nshow + 1
                /\ Len(components'[panel]) <= Len(components[panel]) + 1
                /\ Cardinality(shown) = 1
                /\ \A e \in shown :
                     /\ e.element.owner = p
                     /\ e.element.style = [left |-> origin.x, top |-> origin.y]
                     /\ popoverModalId'[p] = e.key
     /\ (\A p \in Popovers : ~Measured(p)) => nshow' = nshow]_vars

C11_Witness ==
  /\ last.call = "show"
  /\ panel # NoPanel
  /\ visible["A"]
  /\ popoverModalId["A"] = <<"i">>
  /\ \E e \in Entries(components[panel]) :
       /\ e.key = popoverModalId["A"]
       /\ e.element.owner = "A"
       /\ e.element.seq = nshow
       /\ e.element.style = [left |-> Px(10), top |-> Px(-10)]

C18_RenderedInShowOrder ==
  \A pr \in Presenters : alive[pr]
    => LET rendered == renderModals(components[pr])
       IN \A i, j \in 1..Len(rendered) :
            i < j => rendered[i].element.seq < rendered[j].element.seq

\* C19: while at least one presenter is alive the service is bound to a
\* presenter; tearing a presenter down does not leave a presenter that was
\* mounted after it, and is still alive, without the binding.
C19_BoundWhileAPresenterLives ==
  (\E pr \in Presenters : alive[pr]) => panel # NoPanel

\* C20: a popover has at most one overlay record in a presenter's mapping at
\* every moment, also when its measurement callback fires more than once while
\* it is visible.
C20_AtMostOneRecordPerPopover ==
  \A p \in Popovers : \A pr \in Presenters : Cardinality(OwnedBy(components[pr], p)) <= 1

\* C21: once a popover's componentWillUnmount has run, no live presenter's
\* mapping holds a record that this popover registered.
C21_UnmountLeavesNoRecord ==
  \A p \in Popovers : unmounted[p]
    => \A pr \in Presenters : alive[pr] => OwnedBy(components[pr], p) = {}

\* C22: in every state a popover's popoverModalId is either the empty string
\* or the identifier of a record present in the mapping of the bound
\* presenter; it is never undefined and never the identifier of a record
\* that has been removed.
C22_StoredIdIsEmptyOrPresent ==
  \A p \in Popovers :
    \/ popoverModalId[p] = EmptyString
    \/ /\ popoverModalId[p] # Undefined
       /\ panel # NoPanel
       /\ MapHas(components[panel], popoverModalId[p])

\* C23: a hide called through the service with the identifier show returned,
\* while a presenter is bound, removes the overlay from the presenter that
\* holds it, also when another presenter was mounted between show and hide:
\* after the hide no live presenter holds the popover's record under that
\* identifier.
C23_HideReachesTheHoldingPresenter ==
  [][\A p \in Popovers : (HideCall(p) /\ panel # NoPanel)
       => \A pr \in Presenters : alive[pr]
            => ~\E e \in OwnedBy(components'[pr], p) : e.key = popoverModalId[p]]_vars

\* C24: the identifier a show returns on a bound presenter is never the empty
\* string.
C24_ShowNeverReturnsEmpty ==
  [][\A p \in Popovers : (ShowCall(p) /\ panel # NoPanel)
       => popoverModalId'[p] # EmptyString]_vars

----------------------------------------------------------------------------
(* Properties of the ViewPager *)

\* C25: whatever the gesture events and animation ends, onSelect is only
\* called with an index i such that 0 <= i < number of children.
C25_OnSelectIndexInRange ==
  \A k \in 1..Len(pager.selected) :
    0 <= pager.selected[k] /\ pager.selected[k] < ChildCount

----------------------------------------------------------------------------
(* Properties of the Toggle *)

\* The step is the release of a gesture on the toggle.
Released == toggle.granted /\ ~toggle'.granted

\* The step started the thumb animation whose end calls onChange.
StartedToggle == toggle'.starts > toggle.starts

\* C26: on the release of a gesture a disabled toggle starts nothing that
\* calls onChange; an enabled one starts the thumb animation, whose end calls
\* onChange, exactly when (not checked and dx > -5) or (checked and dx < 5);
\* onChange is called only at the end of such an animation, once, and with the
\* negation of the checked prop the toggle had at that release.
C26_OnChangeAfterRelease ==
  [][/\ Released
          => (StartedToggle
                <=> /\ ~toggle.disabled
                    /\ \/ ~toggle.checked /\ toggle'.dx > -5
                       \/ toggle.checked /\ toggle'.dx < 5)
     /\ StartedToggle
          => /\ Released
             /\ toggle'.thumbTranslateAnimation = <<[nextValue |-> ~toggle.checked]>>
     /\ toggle'.changes # toggle.changes
          => /\ toggle.thumbTranslateAnimation # << >>
             /\ toggle'.changes
                  = Append(toggle.changes, toggle.thumbTranslateAnimation[1].nextValue)]_vars

----------------------------------------------------------------------------
(* Properties of the placement engine *)

OppositeSide(side) ==
  CASE side = "top" -> "bottom"
    [] side = "bottom" -> "top"
    [] side = "left" -> "right"
    [] side = "right" -> "left"

PlacementAt(side, align) ==
  CHOOSE pl \in PopoverPlacements : pl.side = side /\ pl.align = align

Recognized(raw) == \E pl \in PopoverPlacements : pl.rawValue = raw

\* The placement a raw value stands for, bottom when it is not recognized.
Resolved(raw) ==
  IF Recognized(raw) THEN CHOOSE pl \in PopoverPlacements : pl.rawValue = raw ELSE BOTTOM

NoOffsets == [e \in Edges |-> 0]

Child == engine.layout[TAG_CHILD]
Content == engine.layout[TAG_CONTENT]

\* C13: every raw placement string that is not one of the twelve recognized
\* ones (e.g. "diagonal") resolves to the default: the frame computed for it is
\* a frame, equal to the one computed for "bottom" on the same rectangles and
\* offsets.
C13_UnknownPlacementIsBottom ==
  (engine.stage = "placed" /\ ~Recognized(engine.placement))
    => /\ engine.frame = frame(BOTTOM, Content, Child, OffsetsFind(engine.style))
       /\ engine.frame = getPopoverFrame(engine.layout, "bottom", engine.style)
       /\ engine.frame.origin.x \in Int
       /\ engine.frame.origin.y \in Int

C13_Witness ==
  /\ engine.stage = "placed"
  /\ engine.placement = "diagonal"
  /\ engine.style = {<<"bottom", Px(4)>>}
  /\ Child = Frame(Px(10), Px(20), Px(100), Px(40))
  /\ Content = Frame(0, 0, Px(60), Px(30))
  /\ engine.frame = Frame(Px(30), Px(64), Px(60), Px(30))

\* C14: for each of the twelve placements P, reverse(reverse(P)) is P, and
\* reverse(P) has the opposite primary side and the same secondary alignment;
\* so has the indicator placement rendered for a recognized placement prop.
C14_ReverseIsInvolution ==
  /\ \A pl \in PopoverPlacements :
       /\ reverse(reverse(pl)) = pl
       /\ reverse(pl).side = OppositeSide(pl.side)
       /\ reverse(pl).align = pl.align
  /\ (engine.stage # "idle" /\ Recognized(engine.placement))
       => /\ Recognized(engine.indicator)
          /\ Resolved(engine.indicator).side = OppositeSide(Resolved(engine.placement).side)
          /\ Resolved(engine.indicator).align = Resolved(engine.placement).align
          /\ renderPopoverElement(engine.indicator) = engine.placement

C14_Witness ==
  /\ engine.stage = "rendered"
  /\ engine.placement = "left end"
  /\ engine.indicator = "right end"

\* C15: with no offsets declared, the frame for "bottom" has its origin at
\* y = A.y + A.height and its horizontal centre on the horizontal centre of
\* the anchor A, for all the anchor and content rectangles.
C15_BottomBelowAndCentred ==
  (engine.stage = "placed" /\ engine.placement = "bottom" /\ engine.style = {})
    => /\ engine.frame.origin.y = Child.origin.y + Child.size.height
       /\ 2 * engine.frame.origin.x + engine.frame.size.width
            = 2 * Child.origin.x + Child.size.width
       /\ engine.frame.size = Content.size

C15_Witness ==
  /\ engine.stage = "placed"
  /\ engine.placement = "bottom"
  /\ engine.style = {}
  /\ Child = Frame(0, 0, Px(30), Px(30))
  /\ Content = Frame(Px(5), Px(5), Px(80), Px(50))
  /\ engine.frame = Frame(Px(-25), Px(30), Px(80), Px(50))

\* C16 as claimed: for the placement "top-start" with no offsets the origin is
\* x = anchor.x, y = anchor.y - content.height.
C16_TopStartHyphenated ==
  (engine.stage = "placed" /\ engine.placement = "top-start" /\ engine.style = {})
    => /\ engine.frame.origin.x = Child.origin.x
       /\ engine.frame.origin.y = Child.origin.y - Content.size.height

\* C16 as amended: the placement is written "top start"; for it, with no
\* offsets, the origin is x = anchor.x, y = anchor.y - content.height, which is
\* {x: 10, y: -10} for the anchor {10, 20, 100, 40} and the content 60 x 30.
C16_TopStartOrigin ==
  (engine.stage = "placed" /\ engine.placement = "top start" /\ engine.style = {})
    => /\ engine.frame.origin.x = Child.origin.x
       /\ engine.frame.origin.y = Child.origin.y - Content.size.height
       /\ (Child = Frame(Px(10), Px(20), Px(100), Px(40)) /\ Content.size = [width |-> Px(60), height |-> Px(30)])
            => engine.frame.origin = [x |-> Px(10), y |-> Px(-10)]

C16_Witness ==
  /\ engine.stage = "placed"
  /\ engine.placement = "top start"
  /\ engine.style = {}
  /\ Child = Frame(Px(10), Px(20), Px(100), Px(40))
  /\ Content = Frame(0, 0, Px(60), Px(30))
  /\ engine.frame.origin = [x |-> Px(10), y |-> Px(-10)]

\* C17: the indicator placement handed to the popover view is always the
\* reverse (opposite side, same alignment) of the placement resolved from the
\* raw placement prop, bottom standing in for an unrecognized value, and that
\* resolved placement is the one the frame is computed for.
C17_IndicatorReversesFramePlacement ==
  LET pl == Resolved(engine.placement)
  IN /\ engine.stage # "idle"
          => engine.indicator = PlacementAt(OppositeSide(pl.side), pl.align).rawValue
     /\ engine.stage = "placed"
          => engine.frame = frame(pl, Content, Child, OffsetsFind(engine.style))

C17_Witness ==
  /\ engine.stage = "placed"
  /\ engine.placement = "right start"
  /\ engine.indicator = "left start"
  /\ engine.style = {}
  /\ Child = Frame(Px(10), Px(20), Px(100), Px(40))
  /\ engine.frame.origin = [x |-> Px(110), y |-> Px(20)]

====
